---- MODULE Spec2Model ----
(***************************************************************************)
(* Model of src/src/main.rs: a co-membership graph is built from a roster  *)
(* of (player_name, team) records, then its connected components are       *)
(* counted and a closeness score is computed for every node.                *)
(*                                                                         *)
(* Names and teams are strings in the program; here they are the numbers   *)
(* 1..NumNames and 1..NumTeams, one number per distinct string.            *)
(* A NodeIndex is 0-based, as in petgraph: node ix has weight nodes[ix+1]. *)
(* An f64 score is the exact quotient in lowest terms, <<num, den>>.        *)
(***************************************************************************)
EXTENDS Integers, Sequences, FiniteSets, TLC

NumNames == 5
NumTeams == 3
MaxRecords == 5

Names == 1..NumNames
Teams == 1..NumTeams

Player == [player_name : Names, team : Teams]

VARIABLES players, pc, i, indices, nodes, edges, team_map, pending,
          num_components, node, centrality

vars == <<players, pc, i, indices, nodes, edges, team_map, pending,
          num_components, node, centrality>>

EmptyMap == [x \in {} |-> 0]

----------------------------------------------------------------------------
(* create_graph, first loop: indices.entry(name).or_insert_with(add_node)  *)

(* a node is allocated for every record, seen before or not                *)
AddNodeAlways(idx, nds, name) == Append(nds, name)

AddNode(idx, nds, name) ==
    IF name \in DOMAIN idx THEN nds ELSE Append(nds, name)

EntryOrInsert(idx, nds, name) ==
    IF name \in DOMAIN idx
    THEN idx
    ELSE [n \in DOMAIN idx \cup {name} |->
             IF n = name THEN Len(nds) ELSE idx[n]]

(* create_graph, second loop: team_map.entry(team).or_default().push(node) *)

PushTeammate(tm, team, nd) ==
    [t \in DOMAIN tm \cup {team} |->
        IF t = team
        THEN (IF team \in DOMAIN tm THEN Append(tm[team], nd) ELSE <<nd>>)
        ELSE tm[t]]

RECURSIVE BuildTeamMap(_, _, _, _)
BuildTeamMap(ps, idx, j, tm) ==
    IF j > Len(ps) THEN tm
    ELSE BuildTeamMap(ps, idx, j + 1,
                      PushTeammate(tm, ps[j].team, idx[ps[j].player_name]))

(* create_graph, third loop body: an edge for every i < j of one team list *)

(* only neighbours in the team list are joined                             *)
RECURSIVE TeammatePairsAdjacent(_, _, _)
TeammatePairsAdjacent(teammates, a, b) ==
    IF a >= Len(teammates) THEN <<>>
    ELSE <<(<<teammates[a], teammates[a + 1]>>)>>
             \o TeammatePairsAdjacent(teammates, a + 1, a + 2)

RECURSIVE TeammatePairs(_, _, _)
TeammatePairs(teammates, a, b) ==
    IF a > Len(teammates) THEN <<>>
    ELSE IF b > Len(teammates) THEN TeammatePairs(teammates, a + 1, a + 2)
    ELSE <<(<<teammates[a], teammates[b]>>)>> \o TeammatePairs(teammates, a, b + 1)

(* the loop over the teams stops after the first team that gave an edge    *)
AddTeamEdgesFirstOnly(es, teammates) ==
    IF es = <<>> THEN es \o TeammatePairs(teammates, 1, 2) ELSE es

AddTeamEdges(es, teammates) == es \o TeammatePairs(teammates, 1, 2)

----------------------------------------------------------------------------
(* petgraph::algo::connected_components, called by                         *)
(* find_connected_components: a union-find over the edge list, then the    *)
(* number of distinct set representatives                                  *)

NodeIds(n) == 0..(n - 1)

RECURSIVE Find(_, _)
Find(parent, x) == IF parent[x] = x THEN x ELSE Find(parent, parent[x])

Union(uf, x, y) ==
    LET xrep == Find(uf.parent, x)
        yrep == Find(uf.parent, y)
    IN IF xrep = yrep THEN uf
       ELSE IF uf.rank[xrep] < uf.rank[yrep]
            THEN [uf EXCEPT !.parent[xrep] = yrep]
       ELSE IF uf.rank[xrep] > uf.rank[yrep]
            THEN [uf EXCEPT !.parent[yrep] = xrep]
       ELSE [uf EXCEPT !.parent[yrep] = xrep, !.rank[xrep] = @ + 1]

RECURSIVE UnionEdges(_, _, _)
UnionEdges(uf, es, j) ==
    IF j > Len(es) THEN uf
    ELSE UnionEdges(Union(uf, es[j][1], es[j][2]), es, j + 1)

(* every edge is taken to merge two sets, a successful union or not        *)
ConnectedComponentsPerEdge(n, es) == n - Len(es)

(* only the nodes that have an edge are labelled                           *)
ConnectedComponentsOfEdges(n, es) ==
    LET uf0 == [parent |-> [x \in NodeIds(n) |-> x],
                rank   |-> [x \in NodeIds(n) |-> 0]]
        uf  == UnionEdges(uf0, es, 1)
    IN Cardinality({Find(uf.parent, es[j][1]) : j \in 1..Len(es)})

ConnectedComponents(n, es) ==
    LET uf0 == [parent |-> [x \in NodeIds(n) |-> x],
                rank   |-> [x \in NodeIds(n) |-> 0]]
        uf  == UnionEdges(uf0, es, 1)
    IN Cardinality({Find(uf.parent, x) : x \in NodeIds(n)})

----------------------------------------------------------------------------
(* petgraph::algo::dijkstra(graph, node, None, |_| 1), called by           *)
(* compute_closeness_centrality: the map of the nodes reached to their     *)
(* cost, grown from a min-heap of (score, node)                            *)

Neighbors(es, n) ==
    {es[j][2] : j \in {k \in 1..Len(es) : es[k][1] = n}} \cup
    {es[j][1] : j \in {k \in 1..Len(es) : es[k][2] = n}}

RECURSIVE DijkstraLoop(_, _, _, _)
DijkstraLoop(es, scores, visited, visit_next) ==
    IF visit_next = {} THEN scores
    ELSE LET top == CHOOSE h \in visit_next : \A g \in visit_next : h[1] <= g[1]
             node_score == top[1]
             n == top[2]
             rest == visit_next \ {top}
         IN IF n \in visited THEN DijkstraLoop(es, scores, visited, rest)
            ELSE LET next_score == node_score + 1
                     improved == {m \in Neighbors(es, n) \ visited :
                                     \/ m \notin DOMAIN scores
                                     \/ next_score < scores[m]}
                     scores2 == [m \in DOMAIN scores \cup improved |->
                                    IF m \in improved THEN next_score ELSE scores[m]]
                 IN DijkstraLoop(es, scores2, visited \cup {n},
                                 rest \cup {<<next_score, m>> : m \in improved})

Dijkstra(es, start) ==
    DijkstraLoop(es, [m \in {start} |-> 0], {}, {<<0, start>>})

(* path_lengths.values().sum()                                             *)
RECURSIVE SumValues(_, _)
SumValues(f, S) ==
    IF S = {} THEN 0
    ELSE LET x == CHOOSE y \in S : TRUE IN f[x] + SumValues(f, S \ {x})

RECURSIVE GCD(_, _)
GCD(a, b) == IF b = 0 THEN a ELSE GCD(b, a % b)

(* the f64 quotient a / b, b > 0, as the fraction in lowest terms           *)
Quotient(a, b) == LET g == GCD(a, b) IN <<a \div g, b \div g>>

Zero == <<0, 1>>

(* the count of the nodes reached stands for the node count                *)
ClosenessReachable(node_count, path_lengths) ==
    LET total_path_length == SumValues(path_lengths, DOMAIN path_lengths)
    IN IF total_path_length > 0
       THEN Quotient(Cardinality(DOMAIN path_lengths) - 1, total_path_length)
       ELSE Zero

(* the quotient is taken the other way round                               *)
ClosenessInverted(node_count, path_lengths) ==
    LET total_path_length == SumValues(path_lengths, DOMAIN path_lengths)
    IN IF total_path_length > 0
       THEN Quotient(total_path_length, node_count - 1)
       ELSE Zero

(* no guard on a zero sum: the f64 division by 0.0 gives inf or NaN        *)
ClosenessNoGuard(node_count, path_lengths) ==
    LET total_path_length == SumValues(path_lengths, DOMAIN path_lengths)
    IN IF total_path_length > 0
       THEN Quotient(node_count - 1, total_path_length)
       ELSE <<node_count - 1, 0>>

Closeness(node_count, path_lengths) ==
    LET total_path_length == SumValues(path_lengths, DOMAIN path_lengths)
    IN IF total_path_length > 0
       THEN Quotient(node_count - 1, total_path_length)
       ELSE Zero

----------------------------------------------------------------------------
Max(S) == IF S = {} THEN 0 ELSE CHOOSE x \in S : \A y \in S : y <= x

UsedNames == {players[j].player_name : j \in 1..Len(players)}
UsedTeams == {players[j].team : j \in 1..Len(players)}

Init ==
    /\ players = <<>>
    /\ pc = "read_data"
    /\ i = 1
    /\ indices = EmptyMap
    /\ nodes = <<>>
    /\ edges = <<>>
    /\ team_map = EmptyMap
    /\ pending = {}
    /\ num_components = 0
    /\ node = 0
    /\ centrality = EmptyMap

(* read_data: one more record is deserialized and pushed.  Names and teams *)
(* are only ever compared for equality, so a roster is taken up to         *)
(* renaming: a name or team not seen before is the next unused number.     *)
ReadRecord ==
    /\ pc = "read_data"
    /\ Len(players) < MaxRecords
    /\ \E name \in Names, team \in Teams :
          /\ name <= Max(UsedNames) + 1
          /\ team <= Max(UsedTeams) + 1
          /\ players' = Append(players, [player_name |-> name, team |-> team])
    /\ UNCHANGED <<pc, i, indices, nodes, edges, team_map, pending,
                   num_components, node, centrality>>

(* read_data returns Ok(players); main calls create_graph                  *)
ReadDone ==
    /\ pc = "read_data"
    /\ pc' = "create_nodes"
    /\ UNCHANGED <<players, i, indices, nodes, edges, team_map, pending,
                   num_components, node, centrality>>

(* create_graph, one iteration of the node loop                            *)
CreateNode ==
    /\ pc = "create_nodes"
    /\ i <= Len(players)
    /\ LET name == players[i].player_name IN
          /\ indices' = EntryOrInsert(indices, nodes, name)
          /\ nodes' = AddNode(indices, nodes, name)
    /\ i' = i + 1
    /\ UNCHANGED <<players, pc, edges, team_map, pending,
                   num_components, node, centrality>>

(* create_graph, the grouping loop; team_map.values() is then started      *)
GroupTeams ==
    /\ pc = "create_nodes"
    /\ i > Len(players)
    /\ team_map' = BuildTeamMap(players, indices, 1, EmptyMap)
    /\ pending' = DOMAIN team_map'
    /\ pc' = "create_edges"
    /\ UNCHANGED <<players, i, indices, nodes, edges,
                   num_components, node, centrality>>

(* create_graph, one iteration of the loop over team_map.values(): a       *)
(* HashMap yields its values in an arbitrary order                         *)
CreateTeamEdges ==
    /\ pc = "create_edges"
    /\ \E team \in pending :
          /\ edges' = AddTeamEdges(edges, team_map[team])
          /\ pending' = pending \ {team}
    /\ UNCHANGED <<players, pc, i, indices, nodes, team_map,
                   num_components, node, centrality>>

(* create_graph returns; main calls find_connected_components              *)
FindConnectedComponents ==
    /\ pc = "create_edges"
    /\ pending = {}
    /\ num_components' = ConnectedComponents(Len(nodes), edges)
    /\ pc' = "centrality"
    /\ UNCHANGED <<players, i, indices, nodes, edges, team_map, pending,
                   node, centrality>>

(* compute_closeness_centrality, one iteration over node_identifiers()     *)
ComputeCloseness ==
    /\ pc = "centrality"
    /\ node < Len(nodes)
    /\ centrality' =
          [m \in DOMAIN centrality \cup {node} |->
              IF m = node THEN Closeness(Len(nodes), Dijkstra(edges, node))
              ELSE centrality[m]]
    /\ node' = node + 1
    /\ UNCHANGED <<players, pc, i, indices, nodes, edges, team_map, pending,
                   num_components>>

(* compute_closeness_centrality returns the map; main prints and ends      *)
Finish ==
    /\ pc = "centrality"
    /\ node = Len(nodes)
    /\ pc' = "done"
    /\ UNCHANGED <<players, i, indices, nodes, edges, team_map, pending,
                   num_components, node, centrality>>

Next ==
    \/ ReadRecord
    \/ ReadDone
    \/ CreateNode
    \/ GroupTeams
    \/ CreateTeamEdges
    \/ FindConnectedComponents
    \/ ComputeCloseness
    \/ Finish

Spec == Init /\ [][Next]_vars

TypeOK ==
    /\ pc \in {"read_data", "create_nodes", "create_edges", "centrality", "done"}
    /\ Len(players) <= MaxRecords
    /\ \A j \in 1..Len(players) : players[j] \in Player
    /\ DOMAIN indices \subseteq Names
    /\ DOMAIN team_map \subseteq Teams
    /\ \A j \in 1..Len(edges) : edges[j] \in NodeIds(Len(nodes)) \X NodeIds(Len(nodes))
    /\ DOMAIN centrality \subseteq NodeIds(Len(nodes))

----------------------------------------------------------------------------
(* Graph vocabulary of the properties, defined on the built graph without  *)
(* the union-find and the heap of the program.                             *)

NodeCount == Len(nodes)
NodeSet == NodeIds(NodeCount)
GraphBuilt == pc \in {"centrality", "done"}

Adjacent(a, b) ==
    \E j \in 1..Len(edges) : edges[j] = <<a, b>> \/ edges[j] = <<b, a>>

RECURSIVE Reachable(_)
Reachable(S) ==
    LET T == S \cup {b \in NodeSet : \E a \in S : Adjacent(a, b)}
    IN IF T = S THEN S ELSE Reachable(T)

MaximalConnected == {Reachable({v}) : v \in NodeSet}

(* sum of the hop distances from the nodes of `seen`, layer by layer       *)
RECURSIVE LayerSum(_, _, _)
LayerSum(frontier, seen, d) ==
    IF frontier = {} THEN 0
    ELSE LET nxt == {b \in NodeSet \ seen : \E a \in frontier : Adjacent(a, b)}
         IN d * Cardinality(frontier) + LayerSum(nxt, seen \cup nxt, d + 1)

DistanceSum(v) == LayerSum({v}, {v}, 0)

Roster(names, teams) ==
    [j \in 1..Len(names) |-> [player_name |-> names[j], team |-> teams[j]]]

SameTeam == \A j, k \in 1..Len(players) : players[j].team = players[k].team
DistinctNames ==
    \A j, k \in 1..Len(players) : j # k => players[j].player_name # players[k].player_name
DistinctTeams ==
    \A j, k \in 1..Len(players) : j # k => players[j].team # players[k].team

(* C1: the count returned by find_connected_components is the number of    *)
(* maximal connected subgraphs of the graph create_graph built, a node     *)
(* with no edge or only a self-loop being one subgraph of its own.         *)
C1_ComponentCount ==
    GraphBuilt => num_components = Cardinality(MaximalConnected)

C1_Witness ==
    /\ pc = "done"
    /\ num_components = 2
    /\ \E v \in NodeSet : Neighbors(edges, v) = {v}
    /\ \E c \in MaximalConnected : Cardinality(c) >= 2

(* C2: every node v gets the score (N - 1) / S when S > 0 and 0 when       *)
(* S = 0, S the sum of the hop distances from v to the nodes reachable     *)
(* from v and N the total node count; the roster (A,X),(B,X),(C,Y),(D,Y)   *)
(* gives every node the score 3.                                           *)
C2_ClosenessFormula ==
    /\ \A v \in DOMAIN centrality :
          LET S == DistanceSum(v)
              score == centrality[v]
          IN IF S > 0
             THEN score[2] > 0 /\ score[1] * S = (NodeCount - 1) * score[2]
             ELSE score = Zero
    /\ (pc = "done" /\ players = Roster(<<1, 2, 3, 4>>, <<1, 1, 2, 2>>))
          => centrality = [v \in 0..3 |-> <<3, 1>>]

C2_Witness ==
    /\ pc = "done"
    /\ players = Roster(<<1, 2, 3, 4>>, <<1, 1, 2, 2>>)
    /\ \A v \in 0..3 : DistanceSum(v) = 1

(* C3 as stated: one entry per node and every score within [0, 1].         *)
C3_ScoresInUnitInterval ==
    pc = "done" =>
        /\ DOMAIN centrality = NodeSet
        /\ \A v \in NodeSet : 0 <= centrality[v][1] /\ centrality[v][1] <= centrality[v][2]

(* C3, amended: one entry per node, every score within [0, N - 1], and     *)
(* within [0, 1] for every node from which all N nodes are reachable.      *)
C3_ScoresBounded ==
    pc = "done" =>
        /\ DOMAIN centrality = NodeSet
        /\ \A v \in NodeSet :
              /\ centrality[v][2] > 0
              /\ 0 <= centrality[v][1]
              /\ centrality[v][1] <= (NodeCount - 1) * centrality[v][2]
              /\ Reachable({v}) = NodeSet => centrality[v][1] <= centrality[v][2]

C3_Witness ==
    /\ pc = "done"
    /\ \E v \in NodeSet : centrality[v][1] > centrality[v][2]
    /\ \E v \in NodeSet : centrality[v] = Zero

(* C4: the graph create_graph builds has no edge with the same node at     *)
(* both endpoints.                                                         *)
C4_NoSelfLoop ==
    \A j \in 1..Len(edges) : edges[j][1] # edges[j][2]

TeamNodes(t) ==
    {indices[players[j].player_name] : j \in {k \in 1..Len(players) : players[k].team = t}}

Choose2(k) == (k * (k - 1)) \div 2

RECURSIVE SumChoose2(_)
SumChoose2(ts) ==
    IF ts = {} THEN 0
    ELSE LET t == CHOOSE x \in ts : TRUE
         IN Choose2(Cardinality(TeamNodes(t))) + SumChoose2(ts \ {t})

(* C5: the edge count is the sum over the teams of C(k, 2), k the number   *)
(* of distinct nodes whose name occurs with the team, and every two        *)
(* distinct nodes sharing a team are joined by an edge.                    *)
C5_EdgeCount ==
    GraphBuilt =>
        /\ Len(edges) = SumChoose2(UsedTeams)
        /\ \A t \in UsedTeams : \A a, b \in TeamNodes(t) : a # b => Adjacent(a, b)

FirstOccurrence(name) ==
    CHOOSE j \in 1..Len(players) :
        /\ players[j].player_name = name
        /\ \A k \in 1..(j - 1) : players[k].player_name # name

NamesBefore(j) == {players[k].player_name : k \in 1..(j - 1)}

(* C6, the state part: the map and the node list after i - 1 records        *)
C6_NodesSoFar ==
    pc # "read_data" =>
        /\ DOMAIN indices = NamesBefore(i)
        /\ Len(nodes) = Cardinality(NamesBefore(i))
        /\ \A name \in DOMAIN indices :
              /\ indices[name] = Cardinality(NamesBefore(FirstOccurrence(name)))
              /\ nodes[indices[name] + 1] = name
        /\ GraphBuilt => DOMAIN indices = UsedNames

(* C6, the step part: no step changes or drops an assigned index           *)
C6_MappingStable ==
    \A name \in DOMAIN indices :
        name \in DOMAIN indices' /\ indices'[name] = indices[name]

(* C6: one node per distinct name, allocated in first-appearance order of  *)
(* the names, a repeated name coalesced to the node of its first           *)
(* occurrence, and an assigned name-to-index mapping never changes.        *)
C6_OneNodePerName == []C6_NodesSoFar /\ [][C6_MappingStable]_vars

C6_Witness ==
    /\ pc = "done"
    /\ Len(nodes) >= 2
    /\ \E j, k \in 1..Len(players) :
          /\ j + 1 < k
          /\ players[j].player_name = players[k].player_name
          /\ players[j + 1].player_name # players[j].player_name

(* C7 as stated: when all records carry the same team, one component and   *)
(* the score 1.0 for every node.                                           *)
C7_SingleClique ==
    (pc = "done" /\ SameTeam) =>
        /\ num_components = 1
        /\ centrality = [v \in NodeSet |-> <<1, 1>>]

(* C7, amended: when the roster is not empty and all records carry the     *)
(* same team, one component, and every node scores 1.0 if there are at     *)
(* least two distinct names and 0 if there is one.                         *)
C7_SingleCliqueNonEmpty ==
    (pc = "done" /\ SameTeam /\ players # <<>>) =>
        /\ num_components = 1
        /\ centrality = [v \in NodeSet |-> IF NodeCount >= 2 THEN <<1, 1>> ELSE Zero]

C7_Witness ==
    /\ pc = "done"
    /\ SameTeam
    /\ NodeCount >= 3
    /\ Len(players) > NodeCount

(* C8: N records of distinct names and pairwise distinct teams give no     *)
(* edge, N components and the score 0 for every node.                      *)
C8_NoSharedTeam ==
    (DistinctNames /\ DistinctTeams) =>
        /\ edges = <<>>
        /\ GraphBuilt => num_components = Len(players) /\ NodeCount = Len(players)
        /\ pc = "done" => centrality = [v \in NodeIds(Len(players)) |-> Zero]

C8_Witness ==
    /\ pc = "done"
    /\ DistinctNames /\ DistinctTeams
    /\ Len(players) >= 3

(* C9: the component count is at least 1 when there is a node and is 0     *)
(* exactly when there is none; the empty roster runs to the end with zero  *)
(* components and an empty score map.                                      *)
C9_CountAndEmpty ==
    /\ GraphBuilt =>
          /\ NodeCount >= 1 => num_components >= 1
          /\ num_components = 0 <=> NodeCount = 0
    /\ (pc = "done" /\ players = <<>>) =>
          num_components = 0 /\ centrality = EmptyMap

C9_Witness ==
    /\ pc = "done"
    /\ players = <<>>
    /\ nodes = <<>>

RECURSIVE NodesOf(_, _, _)
NodesOf(ps, j, st) ==
    IF j > Len(ps) THEN st
    ELSE NodesOf(ps, j + 1,
                 [idx |-> EntryOrInsert(st.idx, st.nds, ps[j].player_name),
                  nds |-> AddNode(st.idx, st.nds, ps[j].player_name)])

RECURSIVE EdgesAscending(_, _, _)
EdgesAscending(tm, ts, es) ==
    IF ts = {} THEN es
    ELSE LET t == CHOOSE x \in ts : \A y \in ts : x <= y
         IN EdgesAscending(tm, ts \ {t}, AddTeamEdges(es, tm[t]))

Outputs(ps) ==
    LET st == NodesOf(ps, 1, [idx |-> EmptyMap, nds |-> <<>>])
        tm == BuildTeamMap(ps, st.idx, 1, EmptyMap)
        es == EdgesAscending(tm, DOMAIN tm, <<>>)
    IN [count  |-> ConnectedComponents(Len(st.nds), es),
        scores |-> [name \in DOMAIN st.idx |->
                       Closeness(Len(st.nds), Dijkstra(es, st.idx[name]))],
        edges  |-> es]

(* C10: the component count and the score of every name are the same in    *)
(* every run on a roster, whatever order team_map.values() yielded the     *)
(* teams in: they are what the run that takes the teams in ascending       *)
(* order gives.                                                            *)
C10_OutputsDependOnRoster ==
    pc = "done" =>
        /\ num_components = Outputs(players).count
        /\ [name \in DOMAIN indices |-> centrality[indices[name]]] = Outputs(players).scores

C10_Witness ==
    /\ pc = "done"
    /\ edges # Outputs(players).edges
    /\ \E t, u \in DOMAIN team_map :
          t # u /\ Len(team_map[t]) >= 2 /\ Len(team_map[u]) >= 2

====
